---- MODULE Spec2Model ----
(***************************************************************************)
(* State-machine model of src/app.js: the Express handlers of the Student  *)
(* Management System and the Mongoose model "Student" they call.           *)
(*                                                                         *)
(* Every handler makes exactly one collaborator call and composes its      *)
(* response from that call's outcome alone, so one request is one action.  *)
(* The collaborator call either completes or rejects; it always rejects    *)
(* while the connection is not ready (Mongoose buffers the operation and   *)
(* times out), and it may reject for other reasons while it is ready.      *)
(* The createdAt/updatedAt timestamps are not modelled.                    *)
(***************************************************************************)
EXTENDS Integers, Sequences, FiniteSets, TLC

VARIABLES
    readyState,  \* mongoose.connection.readyState
    store,       \* the students collection, in insertion order
    nextId,      \* number of ObjectIds given to saved documents
    req,         \* the last request
    call,        \* the collaborator call the last request made, and its outcome
    res,         \* the last response
    before       \* history: the collection as the last request found it

vars == <<readyState, store, nextId, req, call, res, before>>

(***************************************************************************)
(* Bounds of the model.                                                    *)
(***************************************************************************)
\* number of documents ever saved (each takes a fresh ObjectId)
MaxCreates == 2
\* $inc updates are applied only while the resulting age stays below this
MaxStoredAge == 122

(***************************************************************************)
(* JSON values of a request body, and the JavaScript operators the         *)
(* handlers apply to them.                                                 *)
(***************************************************************************)
JUndefined == [t |-> "undefined", s |-> "", n |-> 0]
JStr(s) == [t |-> "string", s |-> s, n |-> 0]
JNum(n) == [t |-> "number", s |-> "", n |-> n]
JNaN == [t |-> "NaN", s |-> "", n |-> 0]

\* the value of a payload string as a number: "" is 0, a numeral its value
StringToNumber(s) ==
    CASE s = "" -> JNum(0)
      [] s = "21" -> JNum(21)
      [] OTHER -> JNaN

\* Number(v), also the conversion the relational operators apply
ToNumber(v) ==
    CASE v.t = "number" -> v
      [] v.t = "string" -> StringToNumber(v.s)
      [] OTHER -> JNaN

\* !v
Falsy(v) ==
    \/ v.t = "undefined"
    \/ v.t = "NaN"
    \/ v.t = "string" /\ v.s = ""
    \/ v.t = "number" /\ v.n = 0

\* v < k and v > k for a number literal k: false when v converts to NaN
JsLess(v, k) == ToNumber(v).t = "number" /\ ToNumber(v).n < k
JsGreater(v, k) == ToNumber(v).t = "number" /\ ToNumber(v).n > k

\* v.length
Length(v) == IF v.t = "string" THEN JNum(Len(v.s)) ELSE JUndefined

(***************************************************************************)
(* Student schema.                                                         *)
(***************************************************************************)
MinNameLength == 2
MinAge == 16
MaxAge == 100
Courses ==
    {"Computer Science", "Mechanical Engineering", "Electrical Engineering",
     "Business Administration", "Civil Engineering", "Medical Science"}

NoStudent == [id |-> "", name |-> "", age |-> 0, course |-> ""]

sampleStudents ==
    << [id |-> "686f66da1801707c14d09e60", name |-> "Alice Johnson",
        age |-> 20, course |-> "Computer Science"],
       [id |-> "686f66da1801707c14d09e61", name |-> "Bob Smith",
        age |-> 22, course |-> "Mechanical Engineering"],
       [id |-> "686f66da1801707c14d09e62", name |-> "Charlie Lee",
        age |-> 19, course |-> "Business Administration"] >>

\* ObjectIds the driver generates, in order of generation; never reused
ObjectIdPool ==
    << "686f66da1801707c14d09e70", "686f66da1801707c14d09e71",
       "686f66da1801707c14d09e72", "686f66da1801707c14d09e73" >>
NewObjectId(n) == ObjectIdPool[n + 1]

\* the cast of req.params.id to ObjectId succeeds on 24 hex characters
IsValidObjectId(id) == Len(id) = 24

\* schema casts; a failed cast is the value JCastError
JCastError == [t |-> "CastError", s |-> "", n |-> 0]
CastToString(v) == IF v.t \in {"string", "undefined"} THEN v ELSE JCastError
CastToNumber(v) ==
    CASE v.t = "number" -> v
      [] v.t = "undefined" -> v
      [] v.t = "string" /\ ToNumber(v).t = "number" -> ToNumber(v)
      [] OTHER -> JCastError

\* schema validators of one path, on the cast value
NameValid(v) == v.t = "string" /\ v.s # "" /\ Len(v.s) >= MinNameLength
AgeValid(v) == v.t = "number" /\ v.n >= MinAge /\ v.n <= MaxAge
CourseValid(v) == v.t = "string" /\ v.s # "" /\ v.s \in Courses

(***************************************************************************)
(* The Mongoose model Student.  Each operator is one call: it takes the    *)
(* collection and whether the operation is rejected by the driver, and     *)
(* returns the call's outcome, the document it resolves to (NoStudent for  *)
(* null) and the collection afterwards.                                    *)
(***************************************************************************)
Ids(docs) == {docs[i].id : i \in 1..Len(docs)}
IndexOf(docs, id) == CHOOSE i \in 1..Len(docs) : docs[i].id = id
Remove(docs, i) == SubSeq(docs, 1, i - 1) \o SubSeq(docs, i + 1, Len(docs))

Outcome(o, doc, docs) == [outcome |-> o, doc |-> doc, docs |-> docs]

\* Student.find()
Find(docs, fail) ==
    IF fail THEN Outcome("MongooseError", NoStudent, docs)
    ELSE Outcome("ok", NoStudent, docs)

\* Student.findById(id)
FindById(docs, id, fail) ==
    IF ~IsValidObjectId(id) THEN Outcome("CastError", NoStudent, docs)
    ELSE IF fail THEN Outcome("MongooseError", NoStudent, docs)
    ELSE IF id \notin Ids(docs) THEN Outcome("ok", NoStudent, docs)
    ELSE Outcome("ok", docs[IndexOf(docs, id)], docs)

\* faulty variant of Save: the document is given the first ObjectId again
SaveReusingId(docs, n, name, age, course, fail) ==
    LET doc == [id |-> NewObjectId(0), name |-> CastToString(name).s,
                age |-> CastToNumber(age).n, course |-> CastToString(course).s]
    IN  IF ~(NameValid(CastToString(name)) /\ AgeValid(CastToNumber(age))
               /\ CourseValid(CastToString(course)))
        THEN Outcome("ValidationError", NoStudent, docs)
        ELSE IF fail THEN Outcome("MongooseError", NoStudent, docs)
        ELSE Outcome("ok", doc, Append(docs, doc))

\* new Student({name, age, course}).save(): validation, then the insert
Save(docs, n, name, age, course, fail) ==
    LET cn == CastToString(name)
        ca == CastToNumber(age)
        cc == CastToString(course)
        doc == [id |-> NewObjectId(n), name |-> cn.s, age |-> ca.n, course |-> cc.s]
    IN  IF ~(NameValid(cn) /\ AgeValid(ca) /\ CourseValid(cc))
        THEN Outcome("ValidationError", NoStudent, docs)
        ELSE IF fail THEN Outcome("MongooseError", NoStudent, docs)
        ELSE Outcome("ok", doc, Append(docs, doc))

\* the paths an update document sets: top-level fields are moved into $set
SetsPath(v) == v.t # "undefined"

\* update validators run on the $set paths only; $inc is not validated
UpdateCastFails(body) ==
    \/ CastToString(body.name) = JCastError
    \/ CastToNumber(body.age) = JCastError
    \/ CastToString(body.course) = JCastError
    \/ CastToNumber(body.inc) = JCastError
UpdateValidatorsFail(body) ==
    \/ SetsPath(body.name) /\ ~NameValid(CastToString(body.name))
    \/ SetsPath(body.age) /\ ~AgeValid(CastToNumber(body.age))
    \/ SetsPath(body.course) /\ ~CourseValid(CastToString(body.course))

\* faulty variant of ApplyUpdate: the body replaces the document, absent fields are lost
ApplyUpdateReplaces(doc, body) ==
    [id |-> doc.id,
     name |-> CastToString(body.name).s,
     age |-> CastToNumber(body.age).n,
     course |-> CastToString(body.course).s]

\* the document after the update is applied (new: true)
ApplyUpdate(doc, body) ==
    [id |-> doc.id,
     name |-> IF SetsPath(body.name) THEN CastToString(body.name).s ELSE doc.name,
     age |-> IF SetsPath(body.age) THEN CastToNumber(body.age).n
             ELSE IF SetsPath(body.inc) THEN doc.age + CastToNumber(body.inc).n
             ELSE doc.age,
     course |-> IF SetsPath(body.course) THEN CastToString(body.course).s ELSE doc.course]

\* Student.findByIdAndUpdate(id, body, {new: true, runValidators: true})
FindByIdAndUpdate(docs, id, body, fail) ==
    IF ~IsValidObjectId(id) THEN Outcome("CastError", NoStudent, docs)
    ELSE IF UpdateCastFails(body) THEN Outcome("CastError", NoStudent, docs)
    ELSE IF UpdateValidatorsFail(body) THEN Outcome("ValidationError", NoStudent, docs)
    ELSE IF fail THEN Outcome("MongooseError", NoStudent, docs)
    ELSE IF id \notin Ids(docs) THEN Outcome("ok", NoStudent, docs)
    ELSE LET i == IndexOf(docs, id)
             doc == ApplyUpdate(docs[i], body)
         IN  Outcome("ok", doc, [docs EXCEPT ![i] = doc])

\* faulty variant of FindByIdAndDelete: the document is found but not removed
FindByIdAndDeleteKeeps(docs, id, fail) == FindById(docs, id, fail)

\* Student.findByIdAndDelete(id)
FindByIdAndDelete(docs, id, fail) ==
    IF ~IsValidObjectId(id) THEN Outcome("CastError", NoStudent, docs)
    ELSE IF fail THEN Outcome("MongooseError", NoStudent, docs)
    ELSE IF id \notin Ids(docs) THEN Outcome("ok", NoStudent, docs)
    ELSE LET i == IndexOf(docs, id)
         IN  Outcome("ok", docs[i], Remove(docs, i))

\* err.message of a rejected call
ErrMessage(o) ==
    CASE o = "CastError" -> "Cast failed"
      [] o = "ValidationError" -> "Student validation failed"
      [] OTHER -> "Operation buffering timed out"

(***************************************************************************)
(* Responses.                                                              *)
(***************************************************************************)
NoResponse ==
    [status |-> 0, error |-> "", message |-> "", student |-> NoStudent,
     list |-> "none", students |-> <<>>, database |-> "", totalStudents |-> 0]
\* res.status(s).json({error: e})
JsonError(s, e) == [NoResponse EXCEPT !.status = s, !.error = e]
\* res.status(s).json(student)
JsonStudent(s, doc) == [NoResponse EXCEPT !.status = s, !.student = doc]
\* res.json(students)
JsonStudents(docs) == [NoResponse EXCEPT !.status = 200, !.list = "array", !.students = docs]

(***************************************************************************)
(* Handlers: the response each route composes from its call's outcome.     *)
(***************************************************************************)
\* faulty variant of GetStudentsResponse: the catch block reports the failure
GetStudentsResponseNoFallback(found) ==
    IF found.outcome = "ok" THEN JsonStudents(found.docs)
    ELSE JsonError(500, ErrMessage(found.outcome))

\* GET /students
GetStudentsResponse(found) ==
    IF found.outcome = "ok" THEN JsonStudents(found.docs)
    ELSE JsonStudents(sampleStudents)

\* GET /students/:id
GetStudentByIdResponse(found) ==
    IF found.outcome # "ok" THEN JsonError(400, "Invalid student ID")
    ELSE IF found.doc = NoStudent THEN JsonError(404, "Student not found")
    ELSE JsonStudent(200, found.doc)

\* POST /students: the pre-checks, "" when all pass
PostPreCheck(name, age, course) ==
    IF Falsy(name) \/ JsLess(Length(name), 2)
    THEN "Name is required and must be at least 2 characters"
    ELSE IF Falsy(age) \/ JsLess(age, 16) \/ JsGreater(age, 100)
    THEN "Age is required and must be between 16 and 100"
    ELSE IF Falsy(course)
    THEN "Course is required"
    ELSE ""

PostStudentResponse(saved) ==
    IF saved.outcome = "ok" THEN JsonStudent(201, saved.doc)
    ELSE JsonError(400, ErrMessage(saved.outcome))

\* PUT /students/:id
PutStudentResponse(updated) ==
    IF updated.outcome # "ok" THEN JsonError(400, ErrMessage(updated.outcome))
    ELSE IF updated.doc = NoStudent THEN JsonError(404, "Student not found")
    ELSE JsonStudent(200, updated.doc)

\* DELETE /students/:id
DeleteStudentResponse(deleted) ==
    IF deleted.outcome # "ok" THEN JsonError(500, ErrMessage(deleted.outcome))
    ELSE IF deleted.doc = NoStudent THEN JsonError(404, "Student not found")
    ELSE [JsonStudent(200, deleted.doc) EXCEPT !.message = "Student deleted"]

\* GET /: the students the inner try block ends with
RootStudents(found) ==
    IF found.outcome # "ok" THEN sampleStudents
    ELSE IF Len(found.docs) = 0 THEN sampleStudents
    ELSE found.docs

\* faulty variant of RootResponse: totalStudents counts the documents find() returned
RootResponseCountsFound(found, ready) ==
    [NoResponse EXCEPT
        !.status = 200,
        !.message = "Student Management System is running!",
        !.database = IF ready = 1 THEN "Connected" ELSE "Disconnected",
        !.list = "info",
        !.totalStudents = Len(found.docs),
        !.students = RootStudents(found)]

\* GET /: the response of the outer try block.  The inner catch absorbs
\* every rejection of find(), and nothing else in the outer try block
\* throws, so the outer catch block (lines 219-227) is never entered.
RootResponse(found, ready) ==
    [NoResponse EXCEPT
        !.status = 200,
        !.message = "Student Management System is running!",
        !.database = IF ready = 1 THEN "Connected" ELSE "Disconnected",
        !.list = "info",
        !.totalStudents = Len(RootStudents(found)),
        !.students = RootStudents(found)]

(***************************************************************************)
(* Requests the model sends.                                               *)
(***************************************************************************)
RequestIds == {NewObjectId(n) : n \in 0..(MaxCreates - 1)} \cup {"not-an-id"}

CreateNames == {JUndefined, JStr("A"), JStr("Dana Kim")}
CreateAges == {JUndefined, JNum(15), JNum(21), JNum(101), JStr("21"), JStr("abc")}
CreateCourses == {JUndefined, JStr(""), JStr("Civil Engineering"), JStr("Astrology")}

Body(name, age, course, inc) == [name |-> name, age |-> age, course |-> course, inc |-> inc]
NoBody == Body(JUndefined, JUndefined, JUndefined, JUndefined)

\* PUT bodies: field sets (partial, valid and invalid) and one operator update
FieldBodies ==
    { NoBody,
      Body(JStr("B"), JUndefined, JUndefined, JUndefined),
      Body(JStr("Bob Smith"), JUndefined, JUndefined, JUndefined),
      Body(JUndefined, JNum(15), JUndefined, JUndefined),
      Body(JUndefined, JNum(25), JUndefined, JUndefined),
      Body(JUndefined, JStr("abc"), JUndefined, JUndefined),
      Body(JUndefined, JUndefined, JStr("Astrology"), JUndefined),
      Body(JStr("B"), JNum(25), JUndefined, JUndefined) }
\* {"$inc": {"age": 100}}
IncBodies == {Body(JUndefined, JUndefined, JUndefined, JNum(100))}
UpdateBodies == FieldBodies \cup IncBodies

Request(op, id, body) == [op |-> op, id |-> id, body |-> body]
Call(method, outcome) == [method |-> method, outcome |-> outcome, ready |-> readyState]

\* the driver rejects every operation while the connection is not ready
Rejects(fail) == readyState # 1 => fail

(***************************************************************************)
(* Initial state: mongoose.connect() has been called, nothing is stored.   *)
(***************************************************************************)
Init ==
    /\ readyState = 2
    /\ store = <<>>
    /\ nextId = 0
    /\ req = Request("none", "", NoBody)
    /\ call = [method |-> "none", outcome |-> "none", ready |-> 2]
    /\ res = NoResponse
    /\ before = <<>>

(***************************************************************************)
(* The connection.                                                         *)
(***************************************************************************)
ConnectSucceeds ==
    /\ readyState = 2
    /\ readyState' = 1
    /\ UNCHANGED <<store, nextId, req, call, res, before>>

ConnectFails ==
    /\ readyState = 2
    /\ readyState' = 0
    /\ UNCHANGED <<store, nextId, req, call, res, before>>

ConnectionLost ==
    /\ readyState = 1
    /\ readyState' = 0
    /\ UNCHANGED <<store, nextId, req, call, res, before>>

Reconnected ==
    /\ readyState = 0
    /\ readyState' = 1
    /\ UNCHANGED <<store, nextId, req, call, res, before>>

(***************************************************************************)
(* The routes.                                                             *)
(***************************************************************************)
GetStudents ==
    \E fail \in BOOLEAN :
        /\ Rejects(fail)
        /\ LET found == Find(store, fail)
           IN  /\ req' = Request("GET /students", "", NoBody)
               /\ call' = Call("find", found.outcome)
               /\ res' = GetStudentsResponse(found)
        /\ before' = store
        /\ UNCHANGED <<readyState, store, nextId>>

GetStudentById ==
    \E id \in RequestIds, fail \in BOOLEAN :
        /\ Rejects(fail)
        /\ LET found == FindById(store, id, fail)
           IN  /\ req' = Request("GET /students/:id", id, NoBody)
               /\ call' = Call("findById", found.outcome)
               /\ res' = GetStudentByIdResponse(found)
        /\ before' = store
        /\ UNCHANGED <<readyState, store, nextId>>

PostStudent ==
    \E name \in CreateNames, age \in CreateAges, course \in CreateCourses :
        /\ nextId < MaxCreates
        /\ req' = Request("POST /students", "", Body(name, age, course, JUndefined))
        /\ IF PostPreCheck(name, age, course) # ""
           THEN /\ res' = JsonError(400, PostPreCheck(name, age, course))
                /\ call' = Call("none", "none")
                /\ UNCHANGED <<store, nextId>>
           ELSE \E fail \in BOOLEAN :
                    /\ Rejects(fail)
                    /\ LET saved == Save(store, nextId, name, ToNumber(age), course, fail)
                       IN  /\ res' = PostStudentResponse(saved)
                           /\ call' = Call("save", saved.outcome)
                           /\ store' = saved.docs
                           /\ nextId' = IF saved.outcome = "ok" THEN nextId + 1 ELSE nextId
        /\ before' = store
        /\ UNCHANGED readyState

\* the bound on $inc: the incremented age stays below MaxStoredAge
IncWithinBound(id, body) ==
    (SetsPath(body.inc) /\ id \in Ids(store))
        => store[IndexOf(store, id)].age + body.inc.n < MaxStoredAge

PutStudent ==
    \E id \in RequestIds, body \in UpdateBodies, fail \in BOOLEAN :
        /\ Rejects(fail)
        /\ IncWithinBound(id, body)
        /\ LET updated == FindByIdAndUpdate(store, id, body, fail)
           IN  /\ req' = Request("PUT /students/:id", id, body)
               /\ call' = Call("findByIdAndUpdate", updated.outcome)
               /\ res' = PutStudentResponse(updated)
               /\ store' = updated.docs
        /\ before' = store
        /\ UNCHANGED <<readyState, nextId>>

DeleteStudent ==
    \E id \in RequestIds, fail \in BOOLEAN :
        /\ Rejects(fail)
        /\ LET deleted == FindByIdAndDelete(store, id, fail)
           IN  /\ req' = Request("DELETE /students/:id", id, NoBody)
               /\ call' = Call("findByIdAndDelete", deleted.outcome)
               /\ res' = DeleteStudentResponse(deleted)
               /\ store' = deleted.docs
        /\ before' = store
        /\ UNCHANGED <<readyState, nextId>>

GetRoot ==
    \E fail \in BOOLEAN :
        /\ Rejects(fail)
        /\ LET found == Find(store, fail)
           IN  /\ req' = Request("GET /", "", NoBody)
               /\ call' = Call("find", found.outcome)
               /\ res' = RootResponse(found, readyState)
        /\ before' = store
        /\ UNCHANGED <<readyState, store, nextId>>

Next ==
    \/ ConnectSucceeds
    \/ ConnectFails
    \/ ConnectionLost
    \/ Reconnected
    \/ GetStudents
    \/ GetStudentById
    \/ PostStudent
    \/ PutStudent
    \/ DeleteStudent
    \/ GetRoot

Spec == Init /\ [][Next]_vars


(***************************************************************************)
(* Vocabulary of the properties, stated on the last request, the           *)
(* collection it found (before) and the response it got.                   *)
(***************************************************************************)
IsGetStudents == req.op = "GET /students"
IsGetRoot == req.op = "GET /"
IsGetById == req.op = "GET /students/:id"
IsPost == req.op = "POST /students"
IsPut == req.op = "PUT /students/:id"
IsDelete == req.op = "DELETE /students/:id"

\* the collaborator call of the last request was made and rejected by the driver
CallFailed == call.outcome = "MongooseError"
\* the last request's connection was not ready when it made its call
Disconnected == call.ready # 1

\* the field constraints of the data model, on a payload value
NameOk(v) == v.t = "string" /\ Len(v.s) >= 2
AgeInRange(v) == ToNumber(v).t = "number" /\ ToNumber(v).n >= 16 /\ ToNumber(v).n <= 100
AgeOk(v) == v.t = "number" /\ v.n >= 16 /\ v.n <= 100
CoursePresent(v) == v.t = "string" /\ v.s # ""
CourseOk(v) == v.t = "string" /\ v.s \in Courses

StudentOk(doc) ==
    /\ Len(doc.name) >= 2
    /\ doc.age >= 16 /\ doc.age <= 100
    /\ doc.course \in Courses

\* the documents of a collection other than the one with this id
Others(docs, id) == SelectSeq(docs, LAMBDA d : d.id # id)
Doc(docs, id) == docs[IndexOf(docs, id)]
IdSeq(docs) == [i \in 1..Len(docs) |-> docs[i].id]

(***************************************************************************)
(* C1                                                                      *)
(***************************************************************************)
\* C1: whenever the connection is not ready or find() fails, GET /students
\* and GET / respond 200 with exactly the three fallback students in order;
\* neither read endpoint ever responds with an error status.
C1_ReadsDegradeToFallback ==
    (IsGetStudents \/ IsGetRoot) =>
        /\ res.status = 200
        /\ res.error = ""
        /\ (Disconnected \/ call.outcome # "ok") => res.students = sampleStudents

C1_Witness ==
    /\ IsGetStudents
    /\ Disconnected
    /\ store # <<>>
    /\ res.status = 200
    /\ res.students = sampleStudents

(***************************************************************************)
(* C2                                                                      *)
(***************************************************************************)
\* C2: on GET /students and on GET /, a find() that succeeds with an empty
\* collection is answered with the three fallback students, not an empty list.
C2_EmptyFetchSubstitutesFallback ==
    ((IsGetStudents \/ IsGetRoot) /\ call.outcome = "ok" /\ before = <<>>) =>
        res.students = sampleStudents

(***************************************************************************)
(* C3                                                                      *)
(***************************************************************************)
\* the message of the first failing check of the claim's three, "" when none
FirstFailingCheck(body) ==
    IF ~NameOk(body.name)
    THEN "Name is required and must be at least 2 characters"
    ELSE IF ~AgeInRange(body.age)
    THEN "Age is required and must be between 16 and 100"
    ELSE IF ~CoursePresent(body.course)
    THEN "Course is required"
    ELSE ""

\* C3: for every POST /students payload, if the name check (present, length
\* >= 2), the age check (present, 16 <= age <= 100) or the course check
\* (present, non-empty) fails, the response is 400 with the message of the
\* first failing check, save() is never invoked and the collection is
\* unchanged.
C3_PreChecksRejectInOrder ==
    (IsPost /\ FirstFailingCheck(req.body) # "") =>
        /\ res.status = 400
        /\ res.error = FirstFailingCheck(req.body)
        /\ call.method = "none"
        /\ store = before

(***************************************************************************)
(* C4                                                                      *)
(***************************************************************************)
\* C4: a POST /students whose name, age and course satisfy all field
\* constraints, with the collaborator call not failing, responds 201 with a
\* student whose name, age and course equal the inputs, appends exactly that
\* one record, and gives it an identifier no record of the collection had;
\* a PUT never changes the identifier of any record.
C4_CreateAddsOneFreshRecord ==
    /\ (IsPost /\ NameOk(req.body.name) /\ AgeOk(req.body.age)
            /\ CourseOk(req.body.course) /\ ~CallFailed) =>
        /\ res.status = 201
        /\ res.student.name = req.body.name.s
        /\ res.student.age = req.body.age.n
        /\ res.student.course = req.body.course.s
        /\ store = Append(before, res.student)
        /\ res.student.id \notin Ids(before)
        /\ IsValidObjectId(res.student.id)
    /\ IsPut => IdSeq(store) = IdSeq(before)

C4_Witness ==
    /\ IsPost
    /\ res.status = 201
    /\ Len(before) >= 1
    /\ Len(store) = Len(before) + 1

(***************************************************************************)
(* C5                                                                      *)
(***************************************************************************)
\* C5: after any sequence of POST, PUT and DELETE requests with arbitrary
\* payloads, every stored student has a name of length >= 2, an age in
\* [16, 100] and a course among the six enumerated values.
C5_StoredStudentsValid ==
    \A i \in 1..Len(store) : StudentOk(store[i])

(***************************************************************************)
(* C6                                                                      *)
(***************************************************************************)
\* C6: GET /students/:id is classified by the identifier alone: malformed
\* gives 400 (never 500), well-formed without a record gives 404, well-formed
\* with a record gives 200 and that student; a well-formed identifier never
\* gives the 400 "Invalid student ID".
C6_GetClassifiedByIdAlone ==
    IsGetById =>
        /\ ~IsValidObjectId(req.id) => res.status = 400
        /\ (IsValidObjectId(req.id) /\ req.id \notin Ids(before)) => res.status = 404
        /\ (IsValidObjectId(req.id) /\ req.id \in Ids(before)) =>
              (res.status = 200 /\ res.student = Doc(before, req.id))
        /\ IsValidObjectId(req.id) => res.error # "Invalid student ID"

(***************************************************************************)
(* C7                                                                      *)
(***************************************************************************)
\* an identifier that was given to a record which is no longer stored
WasDeleted(id) ==
    /\ \E n \in 0..(nextId - 1) : id = NewObjectId(n)
    /\ id \notin Ids(before)

\* the two halves of C7, for a request whose precondition "pre" holds
DeleteRemovesExactlyOne(pre) ==
    (IsDelete /\ req.id \in Ids(before) /\ pre) =>
        /\ res.status = 200
        /\ res.message = "Student deleted"
        /\ res.student = Doc(before, req.id)
        /\ store = Others(before, req.id)
        /\ Len(store) = Len(before) - 1
GoneAfterDelete(pre) ==
    /\ ((IsGetById \/ IsDelete) /\ WasDeleted(req.id) /\ pre) =>
          (res.status = 404 /\ store = before)
    /\ (IsDelete /\ IsValidObjectId(req.id) /\ req.id \notin Ids(before) /\ pre) =>
          (res.status = 404 /\ store = before)

\* C7 as stated: DELETE on an existing identifier responds 200 with a message
\* and the student as it was, and removes exactly that record; every later
\* GET or DELETE on that identifier responds 404; DELETE on a well-formed
\* identifier without a record responds 404 and changes nothing.
C7_Original ==
    DeleteRemovesExactlyOne(TRUE) /\ GoneAfterDelete(TRUE)

\* C7 amended: the same, for requests whose collaborator call does not fail.
C7_DeleteRemovesRecord ==
    DeleteRemovesExactlyOne(~CallFailed) /\ GoneAfterDelete(~CallFailed)

C7_Witness ==
    /\ IsGetById
    /\ WasDeleted(req.id)
    /\ ~CallFailed
    /\ store # <<>>
    /\ res.status = 404

(***************************************************************************)
(* C8                                                                      *)
(***************************************************************************)
\* a partial field set: no update operator, every supplied field valid
Supplied(v) == v.t # "undefined"
IsFieldSet(body) == ~Supplied(body.inc)
FieldsPass(body) ==
    /\ Supplied(body.name) => NameOk(body.name)
    /\ Supplied(body.age) => AgeInRange(body.age)
    /\ Supplied(body.course) => CourseOk(body.course)
FieldSetPasses(body) == IsFieldSet(body) /\ FieldsPass(body)

\* a record with the supplied fields replaced and the others kept
Merged(doc, body) ==
    /\ res.student.id = doc.id
    /\ res.student.name = (IF Supplied(body.name) THEN body.name.s ELSE doc.name)
    /\ res.student.age = (IF Supplied(body.age) THEN ToNumber(body.age).n ELSE doc.age)
    /\ res.student.course = (IF Supplied(body.course) THEN body.course.s ELSE doc.course)

UpdateMerges(pre) ==
    (IsPut /\ req.id \in Ids(before) /\ FieldSetPasses(req.body) /\ pre) =>
        /\ res.status = 200
        /\ Merged(Doc(before, req.id), req.body)
        /\ Doc(store, req.id) = res.student
        /\ Others(store, req.id) = Others(before, req.id)
        /\ IdSeq(store) = IdSeq(before)
UpdateNotFound(pre) ==
    (IsPut /\ IsValidObjectId(req.id) /\ req.id \notin Ids(before) /\ pre) =>
        (res.status = 404 /\ store = before)
UpdateInvalid ==
    (IsPut /\ ~FieldsPass(req.body)) => (res.status = 400 /\ store = before)

\* C8 as stated: PUT on an existing identifier with a partial field set that
\* passes validation responds 200 with the merged student and changes no
\* other record; PUT on a well-formed identifier without a record responds
\* 404; a PUT that fails validation responds 400 and changes nothing.
C8_Original ==
    UpdateMerges(TRUE) /\ UpdateNotFound(TRUE) /\ UpdateInvalid

\* C8 amended: the 200 and the 404 are for requests whose collaborator call
\* does not fail, and the 404 is for bodies that pass validation.
C8_UpdateMergesFields ==
    /\ UpdateMerges(~CallFailed)
    /\ UpdateNotFound(~CallFailed /\ FieldsPass(req.body))
    /\ UpdateInvalid

C8_Witness ==
    /\ IsPut
    /\ res.status = 200
    /\ Len(before) = 2
    /\ Supplied(req.body.age) /\ ~Supplied(req.body.name)
    /\ res.student.age = 25
    /\ Doc(before, req.id).age # 25
    /\ res.student.name = Doc(before, req.id).name

(***************************************************************************)
(* C9                                                                      *)
(***************************************************************************)
\* C9: when the collaborator call of a POST, PUT or DELETE fails
\* unexpectedly (not a validation error, not a malformed identifier), the
\* response is status 500 with the collaborator's message, never a success
\* status and never the fallback students.
C9_WriteFailuresAre500 ==
    ((IsPost \/ IsPut \/ IsDelete) /\ CallFailed) =>
        /\ res.status = 500
        /\ res.error = ErrMessage("MongooseError")
        /\ res.students # sampleStudents

(***************************************************************************)
(* C10                                                                     *)
(***************************************************************************)
DatabaseOf(ready) == IF ready = 1 THEN "Connected" ELSE "Disconnected"

\* C10 as stated: in every GET / response totalStudents is the length of the
\* response's students list and database is the connection state observed
\* by the request, except that when the listing raised an error the response
\* carries the fallback students and reports Disconnected.
C10_Original ==
    IsGetRoot =>
        /\ res.totalStudents = Len(res.students)
        /\ IF call.outcome # "ok"
           THEN res.students = sampleStudents /\ res.database = "Disconnected"
           ELSE res.database = DatabaseOf(call.ready)

\* C10 amended: totalStudents is the length of the response's students list
\* and database is the observed connection state in every GET / response,
\* also when the listing raised an error, in which case the response carries
\* the fallback students.
C10_RootReportsCountAndState ==
    IsGetRoot =>
        /\ res.totalStudents = Len(res.students)
        /\ res.database = DatabaseOf(call.ready)
        /\ call.outcome # "ok" => res.students = sampleStudents

C10_Witness ==
    /\ IsGetRoot
    /\ call.outcome # "ok"
    /\ call.ready = 1
    /\ store # <<>>
    /\ res.totalStudents = 3
    /\ res.database = "Connected"

====
